---- MODULE Spec2Model ----
(***************************************************************************)
(* Model of the IBGE municipality / population pipeline:                   *)
(*   1_ibge_municipios_api.py  registry JSON      -> municipios.csv        *)
(*   3_col_pop.py              populacao.xls      -> pop_corrigida.csv     *)
(*   4_join_pop_mun.py         both CSV files     -> pop_mun_final.csv     *)
(*   5_descritiva.py           pop_mun_final.csv  -> relatorio CSV         *)
(*   8_mapaRR.py               pop_mun_final.csv + shapefile -> map PNG    *)
(* Text cells are sequences of one-character strings; a missing cell       *)
(* (None / NaN) is the one-element sequence NaN.  Numbers are integers in  *)
(* hundredths (Den); quartiles carry a further factor 4, outlier limits a  *)
(* further factor 8.                                                       *)
(***************************************************************************)
EXTENDS Integers, Sequences, FiniteSets, TLC

VARIABLES raw, xls, shp,
          municipios_csv, pop_corrigida_csv, pop_mun_final_csv,
          relatorio_csv, mapa_png, status

vars == <<raw, xls, shp, municipios_csv, pop_corrigida_csv,
          pop_mun_final_csv, relatorio_csv, mapa_png, status>>

inputs == <<raw, xls, shp>>

(***************************************************************************)
(* Bounds of the model.                                                    *)
(***************************************************************************)
MaxReg == 2
MaxPop == 2
MaxGeo == 2
MaxVals == 3

(***************************************************************************)
(* Cells and pandas string operations.                                     *)
(***************************************************************************)
NaN == <<"NaN">>

DigitChars == {"0", "1", "2", "3", "4", "5", "6", "7", "8", "9"}

DigitSeq == <<"0", "1", "2", "3", "4", "5", "6", "7", "8", "9">>

IsDigits(s) == s # NaN /\ \A i \in 1..Len(s) : s[i] \in DigitChars

RECURSIVE Zeros(_)
Zeros(n) == IF n <= 0 THEN <<>> ELSE <<"0">> \o Zeros(n - 1)

\* Series.fillna(v)
fillna(s, v) == IF s = NaN THEN v ELSE s

\* Series.str.zfill(width): NaN stays NaN, shorter text is left-padded
\* with "0", text of the width or longer is unchanged.
zfill(s, width) ==
    IF s = NaN THEN NaN ELSE Zeros(width - Len(s)) \o s

\* Series + Series on text: NaN if either side is NaN.
str_add(a, b) == IF a = NaN \/ b = NaN THEN NaN ELSE a \o b

StartsWith(s, pat) ==
    /\ Len(pat) <= Len(s)
    /\ SubSeq(s, 1, Len(pat)) = pat

\* Series.str.replace(pat, repl, regex=False): every non-overlapping
\* occurrence, scanning left to right.
RECURSIVE ReplaceAll(_, _, _)
ReplaceAll(s, pat, repl) ==
    IF s = <<>> THEN <<>>
    ELSE IF StartsWith(s, pat)
         THEN repl \o ReplaceAll(SubSeq(s, Len(pat) + 1, Len(s)), pat, repl)
         ELSE <<Head(s)>> \o ReplaceAll(Tail(s), pat, repl)

str_replace(s, pat, repl) == IF s = NaN THEN NaN ELSE ReplaceAll(s, pat, repl)

\* Series.astype(str) on an object column: NaN becomes the text "nan".
astype_str(s) == IF s = NaN THEN <<"n", "a", "n">> ELSE s

\* DataFrame.to_csv writes a missing cell as the empty field.
to_csv_cell(s) == IF s = NaN THEN <<>> ELSE s

\* read_csv(dtype=str): the empty field and the default NA markers are
\* read as NaN, every other text is kept verbatim (leading zeros included).
NaMarkers == {<<>>, <<"n", "a", "n">>, <<"N", "a", "N">>, <<"N", "A">>}

read_csv_cell(s) == IF s \in NaMarkers THEN NaN ELSE s

\* One cell written by to_csv and read back by read_csv(dtype=str).
csv_cell(s) == read_csv_cell(to_csv_cell(s))

\* str(cid) of a non-negative int.
RECURSIVE NatToStr(_)
NatToStr(n) ==
    IF n < 10 THEN <<DigitSeq[n + 1]>>
    ELSE NatToStr(n \div 10) \o <<DigitSeq[(n % 10) + 1]>>

MapSeq(Op(_), s) == [i \in 1..Len(s) |-> Op(s[i])]

RECURSIVE FlatSeq(_)
FlatSeq(ss) == IF ss = <<>> THEN <<>> ELSE Head(ss) \o FlatSeq(Tail(ss))

(***************************************************************************)
(* Files: Absent, or <<rows>> once written.                                *)
(***************************************************************************)
Absent == <<>>

File(rows) == <<rows>>

Rows(f) == f[1]

Content(f) == f[1]

Scripts == {"municipios", "col_pop", "join", "descritiva", "mapa"}

\* status[s] is "idle" before the first run of script s, then the outcome
\* of its latest run: "done" or the name of the exception that ended it.
Outcomes == {"idle", "done", "FileNotFoundError", "KeyError", "ValueError",
             "IndexError"}

(***************************************************************************)
(* 1_ibge_municipios_api.py                                                *)
(***************************************************************************)
None == -1

\* "id_ibge": str(cid) if cid is not None else None
RegistryKey(cid) == IF cid = None THEN NaN ELSE NatToStr(cid)

\* JSON values below an item: null, a string, or a dict (a function from
\* its keys to JSON values).
JNull == [t |-> "null"]

JStr(s) == [t |-> "str", s |-> s]

JDict(d) == [t |-> "dict", d |-> d]

\* isinstance(cur, dict)
IsDict(cur) == cur.t = "dict"

\* cur.get(k): None when the key is absent
DictGet(cur, k) == IF k \in DOMAIN cur.d THEN cur.d[k] ELSE JNull

RECURSIVE safe_get_mut_passthrough(_, _, _)
safe_get_mut_passthrough(cur, keys, default) ==
    IF keys = <<>>
    THEN IF cur.t # "null" THEN cur ELSE default
    ELSE IF ~IsDict(cur) THEN cur
    ELSE safe_get_mut_passthrough(DictGet(cur, Head(keys)), Tail(keys), default)

\* safe_get(d, *keys, default): cur is the value reached so far and keys
\* the keys still to follow.
RECURSIVE safe_get(_, _, _)
safe_get(cur, keys, default) ==
    IF keys = <<>>
    THEN IF cur.t # "null" THEN cur ELSE default
    ELSE IF ~IsDict(cur) THEN default
    ELSE safe_get(DictGet(cur, Head(keys)), Tail(keys), default)

PathSigla == <<"microrregiao", "mesorregiao", "UF", "sigla">>
PathNome == <<"microrregiao", "mesorregiao", "UF", "nome">>
PathRegiao == <<"microrregiao", "mesorregiao", "UF", "regiao", "nome">>

\* A value of a row built by process_and_save, as the frame holds it:
\* the text of a string, a missing cell for None.
RowCell(v) == IF v.t = "str" THEN v.s ELSE NaN

\* The dict appended to rows for one item of the response.
RegistryRow(item) ==
    [id_ibge  |-> RegistryKey(item.id),
     nome     |-> item.nome,
     uf_sigla |-> RowCell(safe_get(JDict(item), PathSigla, JNull)),
     uf_nome  |-> RowCell(safe_get(JDict(item), PathNome, JNull)),
     regiao   |-> RowCell(safe_get(JDict(item), PathRegiao, JNull))]

\* process_and_save followed by the module-level verification, which
\* reads the file back and fails on the column lookup when no row was
\* written (a frame built from an empty list has no columns).
ProcessAndSave ==
    /\ municipios_csv' = File(MapSeq(RegistryRow, raw))
    /\ status' = [status EXCEPT !["municipios"] =
                     IF raw = <<>> THEN "KeyError" ELSE "done"]
    /\ UNCHANGED <<inputs, pop_corrigida_csv, pop_mun_final_csv,
                   relatorio_csv, mapa_png>>

(***************************************************************************)
(* 3_col_pop.py                                                            *)
(***************************************************************************)
UfWidth == 2
MunicWidth == 5

normalize_mut_nopad(uf, munic) ==
    str_add(fillna(uf, <<>>), zfill(fillna(munic, <<>>), MunicWidth))

\* df["COD. UF"].fillna("").str.zfill(2) + df["COD. MUNIC"].fillna("").str.zfill(5)
normalize(uf, munic) ==
    str_add(zfill(fillna(uf, <<>>), UfWidth),
            zfill(fillna(munic, <<>>), MunicWidth))

ColPopRow(r) == [id_ibge |-> normalize(r.uf, r.munic), pop |-> r.pop]

ColPop ==
    /\ pop_corrigida_csv' = File(MapSeq(ColPopRow, xls))
    /\ status' = [status EXCEPT !["col_pop"] = "done"]
    /\ UNCHANGED <<inputs, municipios_csv, pop_mun_final_csv,
                   relatorio_csv, mapa_png>>

(***************************************************************************)
(* 4_join_pop_mun.py                                                       *)
(***************************************************************************)
\* read_csv(dtype=str) then astype(str) on the key column
JoinKey(cell) == astype_str(csv_cell(cell))

\* df_mun.merge(df_pop, on="id_ibge", how="left"): each left row, in
\* order, once per right row with an equal key (in right order), or once
\* with a missing population when no right row has its key.
MergeOne(l, right) ==
    LET hits == SelectSeq(right, LAMBDA r : r.id_ibge = l.id_ibge)
    IN  IF hits = <<>>
        THEN <<[id_ibge |-> l.id_ibge, nome |-> l.nome,
                uf_sigla |-> l.uf_sigla, uf_nome |-> l.uf_nome,
                regiao |-> l.regiao, pop |-> NaN]>>
        ELSE MapSeq(LAMBDA r : [id_ibge |-> l.id_ibge, nome |-> l.nome,
                                uf_sigla |-> l.uf_sigla, uf_nome |-> l.uf_nome,
                                regiao |-> l.regiao, pop |-> r.pop], hits)

merge_left(left, right) == FlatSeq(MapSeq(LAMBDA l : MergeOne(l, right), left))

df_mun_of(f) ==
    MapSeq(LAMBDA r : [id_ibge  |-> JoinKey(r.id_ibge),
                       nome     |-> csv_cell(r.nome),
                       uf_sigla |-> csv_cell(r.uf_sigla),
                       uf_nome  |-> csv_cell(r.uf_nome),
                       regiao   |-> csv_cell(r.regiao)],
           Rows(f))

df_pop_of(f) ==
    MapSeq(LAMBDA r : [id_ibge |-> JoinKey(r.id_ibge), pop |-> csv_cell(r.pop)],
           Rows(f))

df_final_of(fm, fp) == merge_left(df_mun_of(fm), df_pop_of(fp))

\* The script fails on a missing input file and on a municipios.csv
\* without the id_ibge column (written from an empty registry).
JoinOutcome ==
    IF municipios_csv = Absent \/ pop_corrigida_csv = Absent
    THEN "FileNotFoundError"
    ELSE IF Rows(municipios_csv) = <<>> THEN "KeyError"
    ELSE "done"

JoinPopMun ==
    /\ IF JoinOutcome # "done"
       THEN /\ status' = [status EXCEPT !["join"] = JoinOutcome]
            /\ UNCHANGED pop_mun_final_csv
       ELSE /\ pop_mun_final_csv' =
                   File(df_final_of(municipios_csv, pop_corrigida_csv))
            /\ status' = [status EXCEPT !["join"] = "done"]
    /\ UNCHANGED <<inputs, municipios_csv, pop_corrigida_csv,
                   relatorio_csv, mapa_png>>

(***************************************************************************)
(* 5_descritiva.py                                                         *)
(***************************************************************************)
\* Numbers are integers in hundredths; the model's inputs carry at most
\* two decimals, all of them dyadic (.5, .25, .75), so float arithmetic
\* on them is exact.
Den == 100

\* A numeric cell: <<>> is NaN, <<v>> is the value v.
NumNaN == <<>>

Num(v) == <<v>>

IsNum(c) == c # NumNaN

Val(c) == c[1]

RECURSIVE DigitsToNat(_)
DigitsToNat(s) ==
    IF s = <<>> THEN 0
    ELSE 10 * DigitsToNat(SubSeq(s, 1, Len(s) - 1))
         + (CHOOSE d \in 0..9 : DigitSeq[d + 1] = s[Len(s)])

DotPositions(s) == {i \in 1..Len(s) : s[i] = "."}

\* Text accepted as a float: digits with at most one "." and at least
\* one digit.
IsNumText(s) ==
    /\ s # NaN
    /\ \A i \in 1..Len(s) : s[i] \in DigitChars \cup {"."}
    /\ Cardinality(DotPositions(s)) <= 1
    /\ \E i \in 1..Len(s) : s[i] \in DigitChars

ParseNum(s) ==
    LET dot  == IF DotPositions(s) = {} THEN Len(s) + 1
                ELSE CHOOSE i \in DotPositions(s) : TRUE
        ip   == SubSeq(s, 1, dot - 1)
        fp   == SubSeq(s, dot + 1, Len(s))
        fp2  == SubSeq(fp \o <<"0", "0">>, 1, 2)
    IN  DigitsToNat(ip) * Den + DigitsToNat(fp2)

\* pd.to_numeric(errors="coerce")
to_numeric(s) == IF IsNumText(s) THEN Num(ParseNum(s)) ELSE NumNaN

populacao_mut_comma(cell) ==
    to_numeric(str_replace(str_replace(cell, <<".">>, <<>>), <<",">>, <<>>))

\* .str.replace(".", "").str.replace(",", ".") then to_numeric
populacao(cell) ==
    to_numeric(str_replace(str_replace(cell, <<".">>, <<>>), <<",">>, <<".">>))

\* The numeric column after the clean-up, one cell per row of the file.
PopColumn(f) == MapSeq(LAMBDA r : populacao(csv_cell(r.pop)), Rows(f))

NonNull(col) == MapSeq(Val, SelectSeq(col, IsNum))

RECURSIVE Insert(_, _)
Insert(x, s) ==
    IF s = <<>> THEN <<x>>
    ELSE IF x <= Head(s) THEN <<x>> \o s
         ELSE <<Head(s)>> \o Insert(x, Tail(s))

RECURSIVE SortAsc(_)
SortAsc(s) == IF s = <<>> THEN <<>> ELSE Insert(Head(s), SortAsc(Tail(s)))

RECURSIVE SumSeq(_)
SumSeq(s) == IF s = <<>> THEN 0 ELSE Head(s) + SumSeq(Tail(s))

\* Series.isna().sum()
faltantes(col) == Len(SelectSeq(col, LAMBDA c : ~IsNum(c)))

\* Series.quantile(k/4), linear interpolation, in units of 1/(4*Den):
\* position (n-1)*k/4 between the two neighbouring order statistics.
quantile4(vals, k) ==
    LET a   == SortAsc(vals)
        pos == (Len(a) - 1) * k
        lo  == pos \div 4
        fr  == pos % 4
    IN  IF fr = 0 THEN 4 * a[lo + 1]
        ELSE 4 * a[lo + 1] + fr * (a[lo + 2] - a[lo + 1])

\* round(x, 2) of x = n/d hundredths: nearest, ties to even.
Round2(n, d) ==
    LET q == n \div d
        r == n % d
    IN  IF 2 * r < d THEN q
        ELSE IF 2 * r > d THEN q + 1
        ELSE IF q % 2 = 0 THEN q ELSE q + 1

\* int(x) of x = n/d: truncation toward zero.
IntOf(n, d) == IF n >= 0 THEN n \div d ELSE -((-n) \div d)

RECURSIVE ISqrtIn(_, _, _)
ISqrtIn(lo, hi, f) ==
    IF lo >= hi THEN lo
    ELSE LET mid == (lo + hi + 1) \div 2
         IN  IF mid * mid <= f THEN ISqrtIn(mid, hi, f)
             ELSE ISqrtIn(lo, mid - 1, f)

SqrtCap == 46340

ISqrt(f) == ISqrtIn(0, SqrtCap, f)

\* Sample standard deviation (denominator n-1) rounded to two decimals,
\* in hundredths: the k with (2k-1)^2 <= 4*V/(n(n-1)) < (2k+1)^2, where
\* V = n*sum(x^2) - sum(x)^2.
Std2(vals) ==
    LET n == Len(vals)
        b == n * (n - 1)
        v == n * SumSeq(MapSeq(LAMBDA x : x * x, vals))
             - SumSeq(vals) * SumSeq(vals)
        f == 4 * (v \div b) + (4 * (v % b)) \div b
    IN  (ISqrt(f) + 1) \div 2

IsOutlier_mut_inclusive(c, q1, q3) ==
    /\ IsNum(c)
    /\ \/ 8 * Val(c) <= 2 * q1 - 3 * (q3 - q1)
       \/ 8 * Val(c) >= 2 * q3 + 3 * (q3 - q1)

\* df[(col < limite_inferior) | (col > limite_superior)], compared in
\* units of 1/(8*Den); a NaN cell satisfies neither comparison.
IsOutlier(c, q1, q3) ==
    /\ IsNum(c)
    /\ \/ 8 * Val(c) < 2 * q1 - 3 * (q3 - q1)
       \/ 8 * Val(c) > 2 * q3 + 3 * (q3 - q1)

outliers(col) ==
    LET vals == NonNull(col)
    IN  IF vals = <<>> THEN {}
        ELSE {i \in 1..Len(col) :
                 IsOutlier(col[i], quantile4(vals, 1), quantile4(vals, 3))}

RelatorioQ_mut_round(q4) == Round2(q4, 4)

\* int(q1), int(q3): written in hundredths.
RelatorioQ(q4) == IntOf(q4, 4 * Den) * Den

\* round(estatisticas["mean"], 2)
RelatorioMean(sum, n) == Round2(sum, n)

\* The "Valor" column of the report, in the order of the "Metrica"
\* column; counts are plain integers, the rest is in hundredths.
relatorio(col) ==
    LET vals == NonNull(col)
        a    == SortAsc(vals)
        n    == Len(vals)
    IN  [count     |-> n,
         mean      |-> RelatorioMean(SumSeq(vals), n),
         median    |-> Round2(quantile4(vals, 2), 4),
         std       |-> IF n >= 2 THEN Num(Std2(vals)) ELSE NumNaN,
         min       |-> IntOf(a[1], Den) * Den,
         max       |-> IntOf(a[n], Den) * Den,
         q1        |-> RelatorioQ(quantile4(vals, 1)),
         q3        |-> RelatorioQ(quantile4(vals, 3)),
         faltantes |-> faltantes(col),
         outliers  |-> Cardinality(outliers(col))]

\* The script fails on a missing input file, and at int(estatisticas["min"])
\* when no population is numeric (int of NaN).
DescritivaOutcome ==
    IF pop_mun_final_csv = Absent THEN "FileNotFoundError"
    ELSE IF NonNull(PopColumn(pop_mun_final_csv)) = <<>> THEN "ValueError"
    ELSE "done"

Descritiva ==
    /\ IF DescritivaOutcome # "done"
       THEN /\ status' = [status EXCEPT !["descritiva"] = DescritivaOutcome]
            /\ UNCHANGED relatorio_csv
       ELSE /\ relatorio_csv' = File(relatorio(PopColumn(pop_mun_final_csv)))
            /\ status' = [status EXCEPT !["descritiva"] = "done"]
    /\ UNCHANGED <<inputs, municipios_csv, pop_corrigida_csv,
                   pop_mun_final_csv, mapa_png>>

(***************************************************************************)
(* 8_mapaRR.py                                                             *)
(***************************************************************************)
UpperChars == <<"A", "B", "C", "D", "E", "F", "G", "H", "I", "J", "K", "L", "M",
                "N", "O", "P", "Q", "R", "S", "T", "U", "V", "W", "X", "Y", "Z">>

LowerChars == <<"a", "b", "c", "d", "e", "f", "g", "h", "i", "j", "k", "l", "m",
                "n", "o", "p", "q", "r", "s", "t", "u", "v", "w", "x", "y", "z">>

LowerChar(c) ==
    IF \E i \in 1..26 : UpperChars[i] = c
    THEN LowerChars[CHOOSE i \in 1..26 : UpperChars[i] = c]
    ELSE c

\* c.lower()
lower(s) == MapSeq(LowerChar, s)

\* pat in c
Contains(s, pat) ==
    \E i \in 1..(Len(s) - Len(pat) + 1) : SubSeq(s, i, i + Len(pat) - 1) = pat

IdWidth == 7

\* .str.replace(".0", "", regex=False).str.zfill(7)
standardize(cell) == zfill(str_replace(cell, <<".", "0">>, <<>>), IdWidth)

\* The population table of the map script after dropna.
MapaDf(f) ==
    SelectSeq(MapSeq(LAMBDA r : [id_ibge |-> standardize(csv_cell(r.id_ibge)),
                                 pop     |-> populacao(csv_cell(r.pop))],
                     Rows(f)),
              LAMBDA r : r.id_ibge # NaN /\ IsNum(r.pop))

\* [c for c in mun.columns if "cd_mun" in c or "cod" in c]
Candidates(columns) ==
    SelectSeq(MapSeq(lower, columns),
              LAMBDA c : Contains(c, <<"c", "d", "_", "m", "u", "n">>)
                         \/ Contains(c, <<"c", "o", "d">>))

ColumnIndex(columns, name) ==
    CHOOSE i \in 1..Len(columns) : lower(columns[i]) = name

\* col_ibge and col_mun: both the first candidate.
col_ibge(columns) == Candidates(columns)[1]

col_mun(columns) == Candidates(columns)[1]

\* mun with its id_ibge column, one record per feature.
MapaMun(t) ==
    MapSeq(LAMBDA r :
             [geom    |-> r.geom,
              by      |-> r.cells[ColumnIndex(t.columns, col_mun(t.columns))],
              id_ibge |-> standardize(astype_str(
                            r.cells[ColumnIndex(t.columns, col_ibge(t.columns))]))],
           t.rows)

GeoMergeOne(m, df) ==
    LET hits == SelectSeq(df, LAMBDA r : r.id_ibge = m.id_ibge)
    IN  MapSeq(LAMBDA r : [geom |-> m.geom, by |-> m.by,
                           id_ibge |-> m.id_ibge, pop |-> r.pop], hits)

\* mun.merge(df, on="id_ibge", how="left") followed by the notna filter,
\* which removes exactly the features without a matching df row (every
\* df row has a population after dropna).
MapaGeo(t, f) == FlatSeq(MapSeq(LAMBDA m : GeoMergeOne(m, MapaDf(f)), MapaMun(t)))

\* geo.dissolve(by=col_mun): one record per distinct non-missing key, its
\* geometry the union of the members' geometries.
dissolve(geo) ==
    {[key   |-> k,
      geoms |-> {geo[i].geom : i \in {j \in 1..Len(geo) : geo[j].by = k}}] :
        k \in {geo[i].by : i \in 1..Len(geo)} \ {NaN}}

SeqMin(s) == CHOOSE x \in {s[i] : i \in 1..Len(s)} :
                 \A i \in 1..Len(s) : x <= s[i]

SeqMax(s) == CHOOSE x \in {s[i] : i \in 1..Len(s)} :
                 \A i \in 1..Len(s) : x >= s[i]

GeoPops(geo) == MapSeq(LAMBDA g : Val(g.pop), geo)

\* The script fails on a missing population file, on [0] of an empty
\* candidate list, and when LogNorm is applied with vmin <= 0.
MapaOutcome ==
    IF pop_mun_final_csv = Absent THEN "FileNotFoundError"
    ELSE IF Candidates(shp.columns) = <<>> THEN "IndexError"
    ELSE LET geo == MapaGeo(shp, pop_mun_final_csv)
         IN  IF geo # <<>> /\ SeqMin(GeoPops(geo)) <= 0 THEN "ValueError"
             ELSE "done"

Mapa(geo) ==
    [plotted    |-> geo,
     boundaries |-> dissolve(geo),
     norm       |-> "log",
     vmin       |-> IF geo = <<>> THEN NumNaN ELSE Num(SeqMin(GeoPops(geo))),
     vmax       |-> IF geo = <<>> THEN NumNaN ELSE Num(SeqMax(GeoPops(geo)))]

MapaRR ==
    /\ IF MapaOutcome # "done"
       THEN /\ status' = [status EXCEPT !["mapa"] = MapaOutcome]
            /\ UNCHANGED mapa_png
       ELSE /\ mapa_png' = File(Mapa(MapaGeo(shp, pop_mun_final_csv)))
            /\ status' = [status EXCEPT !["mapa"] = "done"]
    /\ UNCHANGED <<inputs, municipios_csv, pop_corrigida_csv,
                   pop_mun_final_csv, relatorio_csv>>

(***************************************************************************)
(* Inputs of a run.                                                        *)
(***************************************************************************)
SeqsUpTo(S, n) == UNION {[1..k -> S] : k \in 0..n}

Tags == <<"a", "b", "c", "d", "e", "f", "g", "h">>

\* The nested location hierarchy of an item, around its "UF" value.
Hierarchy(uf) == JDict([mesorregiao |-> JDict([UF |-> uf])])

SP == <<"S", "P">>

SaoPaulo == <<"S", "a", "o", " ", "P", "a", "u", "l", "o">>

Sudeste == <<"S", "u", "d", "e", "s", "t", "e">>

UF_SP == JDict([sigla  |-> JStr(SP),
                nome   |-> JStr(SaoPaulo),
                regiao |-> JDict([nome |-> JStr(Sudeste)])])

\* An item of the response with the complete hierarchy.
Item(id, nome) == [id |-> id, nome |-> nome, microrregiao |-> Hierarchy(UF_SP)]

\* The registry JSON: one item per id, named by its position.
Registry(ids) == [i \in 1..Len(ids) |-> Item(ids[i], <<Tags[i]>>)]

\* The shapes of an item whose hierarchy is incomplete or malformed.
ItemShapes(id, nome) ==
    << Item(id, nome),
       [id |-> id, nome |-> nome],
       [id |-> id, nome |-> nome, microrregiao |-> JNull],
       [id |-> id, nome |-> nome, microrregiao |-> JStr(<<"x">>)],
       [id |-> id, nome |-> nome,
        microrregiao |-> JDict([mesorregiao |-> JNull])],
       [id |-> id, nome |-> nome,
        microrregiao |-> JDict([mesorregiao |-> JDict([nome |-> JStr(<<"m">>)])])],
       [id |-> id, nome |-> nome, microrregiao |-> Hierarchy(JStr(SP))],
       [id |-> id, nome |-> nome,
        microrregiao |-> Hierarchy(JDict([sigla |-> JNull, nome |-> JStr(SaoPaulo),
                                          regiao |-> JNull]))],
       [id |-> id, nome |-> nome,
        microrregiao |-> Hierarchy(JDict([sigla |-> JStr(SP),
                                          regiao |-> JStr(Sudeste)]))],
       [id |-> id, nome |-> nome,
        microrregiao |-> Hierarchy(JDict([sigla |-> JStr(SP), nome |-> JStr(SaoPaulo),
                                          regiao |-> JDict([nome |-> JNull])]))] >>

NumShapes == Len(ItemShapes(None, <<>>))

RegIds == {None, 100001, 3500000, 3500001}

XlsCodes == {<<<<"3", "5">>, <<"1">>>>, <<<<"3", "5">>, NaN>>,
             <<<<"1">>, <<"1">>>>, <<NaN, <<"1">>>>}

XlsRows == {[uf |-> c[1], munic |-> c[2], pop |-> <<"1", "0", "0">>] : c \in XlsCodes}

CD_MUN == <<"C", "D", "_", "M", "U", "N">>
SIGLA_UF == <<"S", "I", "G", "L", "A", "_", "U", "F">>
COD_UF == <<"C", "O", "D", "_", "U", "F">>

\* A shapefile with the municipality code, the state code and the state
\* abbreviation of each feature under one of four column layouts.
ShpLayouts == {<<CD_MUN, SIGLA_UF>>, <<SIGLA_UF>>, <<COD_UF, CD_MUN>>,
               <<CD_MUN, COD_UF>>}

ShpCell(col, code) ==
    IF col = CD_MUN THEN code
    ELSE IF col = COD_UF THEN <<"3", "5">>
    ELSE SP

ShpTable(layout, codes) ==
    [columns |-> layout,
     rows    |-> [i \in 1..Len(codes) |->
                    [geom  |-> i,
                     cells |-> [j \in 1..Len(layout) |-> ShpCell(layout[j], codes[i])]]]]

ShpCodes == {<<"3", "5", "0", "0", "0", "0", "1">>,
             <<"3", "5", "0", "0", "0", "0", "1", ".", "0">>,
             <<"3", "5", "0", "0", "0", "0", "2">>,
             NaN}

DefaultShp == ShpTable(<<CD_MUN, SIGLA_UF>>, <<<<"3", "5", "0", "0", "0", "0", "1">>>>)

\* Runs that vary the registry ids and the population codes.
InitJoin ==
    /\ \E ids \in SeqsUpTo(RegIds, MaxReg) : raw = Registry(ids)
    /\ xls \in SeqsUpTo(XlsRows, MaxPop)
    /\ shp = DefaultShp

PopTexts == {<<"1">>, <<"2">>, <<"2", ",", "5">>, <<"1", ".", "0">>, <<"x">>, NaN}

T(n) == NatToStr(n)

Scenarios == {<<T(1), T(2), T(3), T(4), T(5), T(100)>>,
              <<T(100)>>,
              <<<<"1", ".", "2", "3", "4", ",", "5">>>>}

\* Runs that vary the population texts: row i of the registry has id
\* 3500000 + i and row i of the spreadsheet the codes "35", str(i).
InitStats ==
    \E txt \in SeqsUpTo(PopTexts, MaxVals) \cup Scenarios :
        /\ raw = Registry([i \in 1..Len(txt) |-> 35 * 100000 + i])
        /\ xls = [i \in 1..Len(txt) |->
                    [uf |-> <<"3", "5">>, munic |-> T(i), pop |-> txt[i]]]
        /\ shp = DefaultShp

GeoTexts == {<<"1", "0", "0">>, <<"0">>}

\* Runs that vary the shapefile.
InitGeo ==
    /\ raw = Registry(<<3500001, 3500002>>)
    /\ \E t \in GeoTexts :
          xls = <<[uf |-> <<"3", "5">>, munic |-> <<"1">>, pop |-> t],
                  [uf |-> <<"3", "5">>, munic |-> <<"0", "0", "0", "0", "2">>,
                   pop |-> <<"7">>]>>
    /\ \E layout \in ShpLayouts, codes \in SeqsUpTo(ShpCodes, MaxGeo) :
          shp = ShpTable(layout, codes)

\* Runs that vary the hierarchy of each item of the response.
InitApi ==
    /\ \E shapes \in SeqsUpTo(1..NumShapes, MaxReg) :
          raw = [i \in 1..Len(shapes) |->
                    ItemShapes(35 * 100000 + i, <<Tags[i]>>)[shapes[i]]]
    /\ xls = <<[uf |-> <<"3", "5">>, munic |-> <<"1">>, pop |-> <<"1", "0", "0">>]>>
    /\ shp = DefaultShp

Init ==
    /\ InitJoin \/ InitStats \/ InitGeo \/ InitApi
    /\ municipios_csv = Absent
    /\ pop_corrigida_csv = Absent
    /\ pop_mun_final_csv = Absent
    /\ relatorio_csv = Absent
    /\ mapa_png = Absent
    /\ status = [s \in Scripts |-> "idle"]

Next ==
    \/ ProcessAndSave
    \/ ColPop
    \/ JoinPopMun
    \/ Descritiva
    \/ MapaRR

Spec == Init /\ [][Next]_vars

(***************************************************************************)
(* Properties.                                                             *)
(***************************************************************************)
Joined == Rows(pop_mun_final_csv)

PopCorrigida == Rows(pop_corrigida_csv)

RowsNamed(nome) == {j \in 1..Len(Joined) : Joined[j].nome = nome}

\* C1: once the join has written its table, the table has as many rows
\* as the registry and every registry row appears in it exactly once.
C1_JoinKeepsRegistryRows ==
    pop_mun_final_csv # Absent =>
        /\ Len(Joined) = Len(raw)
        /\ \A i \in 1..Len(raw) : Cardinality(RowsNamed(raw[i].nome)) = 1

HasDuplicateKeys(rows) ==
    \E i, j \in 1..Len(rows) : i < j /\ rows[i].id_ibge = rows[j].id_ibge

\* C2: a population table with two rows of the same id_ibge never goes
\* with a completed join.
C2_DuplicateKeysAbortJoin ==
    (pop_corrigida_csv # Absent /\ HasDuplicateKeys(PopCorrigida))
        => pop_mun_final_csv = Absent

ValidUf(s) == IsDigits(s) /\ Len(s) \in 1..2

ValidMunic(s) == IsDigits(s) /\ Len(s) \in 1..5

PadLeft(s, w) ==
    [i \in 1..w |-> IF i <= w - Len(s) THEN "0" ELSE s[i - (w - Len(s))]]

\* C3: for a state code of 1-2 digits and a municipality code of 1-5
\* digits the identifier written by the population script has 7
\* characters, all digits, and is the state code padded to 2 followed by
\* the municipality code padded to 5.
C3_NormalizeCanonical ==
    pop_corrigida_csv # Absent =>
        \A i \in 1..Len(xls) :
            (ValidUf(xls[i].uf) /\ ValidMunic(xls[i].munic)) =>
                LET id == PopCorrigida[i].id_ibge
                IN  /\ Len(id) = 7
                    /\ IsDigits(id)
                    /\ id = PadLeft(xls[i].uf, 2) \o PadLeft(xls[i].munic, 5)

C3_Witness ==
    /\ pop_corrigida_csv # Absent
    /\ \E i \in 1..Len(xls) :
          /\ ValidUf(xls[i].uf) /\ Len(xls[i].uf) = 1
          /\ ValidMunic(xls[i].munic) /\ Len(xls[i].munic) < 5

KeyAbsent(r) == r.uf \in {NaN, <<>>} \/ r.munic \in {NaN, <<>>}

\* C4: a population row whose state code or municipality code is missing
\* gets a null identifier.
C4_AbsentComponentGivesNull ==
    pop_corrigida_csv # Absent =>
        \A i \in 1..Len(xls) :
            KeyAbsent(xls[i]) => PopCorrigida[i].id_ibge = NaN

\* C5: a record without a constructible identifier stays in its own table
\* and is matched with nothing: a registry row without id gets no
\* population, a population row with a missing code gives its population
\* to no registry row, and neither shows up in the geometry merge.
C5_NullKeyNeverMatched ==
    pop_mun_final_csv # Absent =>
        /\ Len(PopCorrigida) = Len(xls)
        /\ \A i \in 1..Len(raw) :
              raw[i].id = None =>
                  /\ RowsNamed(raw[i].nome) # {}
                  /\ \A j \in RowsNamed(raw[i].nome) : Joined[j].pop = NaN
        /\ \A k \in 1..Len(xls) :
              KeyAbsent(xls[k]) =>
                  \A j \in 1..Len(Joined) :
                      Joined[j].id_ibge # JoinKey(PopCorrigida[k].id_ibge)
        /\ mapa_png # Absent =>
              \A i \in 1..Len(raw) :
                  raw[i].id = None =>
                      \A j \in RowsNamed(raw[i].nome) :
                          \A g \in 1..Len(Content(mapa_png).plotted) :
                              Content(mapa_png).plotted[g].id_ibge
                                  # standardize(csv_cell(Joined[j].id_ibge))

SameMunicipality(item, r) ==
    /\ item.id # None
    /\ ValidUf(r.uf)
    /\ ValidMunic(r.munic)
    /\ item.id = DigitsToNat(r.uf) * 100000 + DigitsToNat(r.munic)

\* C6: for one municipality the key of its registry row, the key of its
\* population row and the key of its geometry row (whose code carries a
\* trailing ".0") are the same 7-character text.
C6_SameKeyInAllTables ==
    (municipios_csv # Absent /\ pop_corrigida_csv # Absent) =>
        \A i \in 1..Len(raw), k \in 1..Len(xls) :
            SameMunicipality(raw[i], xls[k]) =>
                LET kr == JoinKey(Rows(municipios_csv)[i].id_ibge)
                    kp == JoinKey(PopCorrigida[k].id_ibge)
                    kg == standardize(astype_str(NatToStr(raw[i].id) \o <<".", "0">>))
                IN  /\ kr = kp
                    /\ kp = kg
                    /\ Len(kr) = 7

PopCells == PopColumn(pop_mun_final_csv)

DescritivaRan == status["descritiva"] \notin {"idle", "FileNotFoundError"}

Unparseable(j) == csv_cell(Joined[j].pop) # NaN /\ ~IsNum(PopCells[j])

\* C7: when the statistics script has run on a table with a population
\* text that is not a number, it has written its report, and the report's
\* missing count includes every such row.
C7_UnparseableCountedNotFatal ==
    (DescritivaRan /\ \E j \in 1..Len(Joined) : Unparseable(j)) =>
        /\ status["descritiva"] = "done"
        /\ relatorio_csv # Absent
        /\ Content(relatorio_csv).faltantes
               >= Cardinality({j \in 1..Len(Joined) : Unparseable(j)})

\* C8: when the statistics script has run on a table without any numeric
\* population, it has written a report with count 0 and a missing count
\* equal to the number of rows.
C8_NoValuesStillReports ==
    (DescritivaRan /\ \A j \in 1..Len(Joined) : ~IsNum(PopCells[j])) =>
        /\ status["descritiva"] = "done"
        /\ relatorio_csv # Absent
        /\ Content(relatorio_csv).count = 0
        /\ Content(relatorio_csv).faltantes = Len(Joined)

\* The linearly interpolated k-th quartile, in units of 1/(4*Den).
Percentile4(vals, k) ==
    LET a  == SortAsc(vals)
        h4 == k * (Len(a) - 1)
        lo == h4 \div 4
    IN  4 * a[lo + 1]
        + (h4 - 4 * lo) * (IF lo + 2 <= Len(a) THEN a[lo + 2] - a[lo + 1] ELSE 0)

OutlierRows(col) ==
    LET vals == NonNull(col)
        q1   == Percentile4(vals, 1)
        q3   == Percentile4(vals, 3)
    IN  {i \in 1..Len(col) :
            /\ IsNum(col[i])
            /\ \/ 8 * Val(col[i]) < 2 * q1 - 3 * (q3 - q1)
               \/ 8 * Val(col[i]) > 2 * q3 + 3 * (q3 - q1)}

ExampleVals == <<100, 200, 300, 400, 500, 10000>>

\* C9: the rows selected as outliers are exactly the rows with a non-null
\* population below Q1 - 1.5*IQR or above Q3 + 1.5*IQR, the report's
\* "Outliers Detectados" is their number, and for [1,2,3,4,5,100] the
\* quartiles are 2.25 and 4.75 and the only outlier is 100.
C9_OutlierRule ==
    relatorio_csv # Absent =>
        /\ outliers(PopCells) = OutlierRows(PopCells)
        /\ Content(relatorio_csv).outliers = Cardinality(OutlierRows(PopCells))
        /\ NonNull(PopCells) = ExampleVals =>
              /\ quantile4(NonNull(PopCells), 1) = 900
              /\ quantile4(NonNull(PopCells), 3) = 1900
              /\ outliers(PopCells) = {6}

C9_Witness ==
    /\ relatorio_csv # Absent
    /\ NonNull(PopCells) = ExampleVals
    /\ Content(relatorio_csv).outliers = 1

\* k is the sample standard deviation of vals rounded to two decimals.
IsStd2(k, vals) ==
    LET n == Len(vals)
        b == n * (n - 1)
        v == n * SumSeq([i \in 1..n |-> vals[i] * vals[i]])
             - SumSeq(vals) * SumSeq(vals)
    IN  /\ k >= 0
        /\ (k > 0 => (2 * k - 1) * (2 * k - 1) * b <= 4 * v)
        /\ 4 * v < (2 * k + 1) * (2 * k + 1) * b

RoundedStats(r, vals) ==
    /\ r.count = Len(vals)
    /\ r.mean = Round2(SumSeq(vals), Len(vals))
    /\ r.median = Round2(Percentile4(vals, 2), 4)
    /\ IF Len(vals) >= 2 THEN IsNum(r.std) /\ IsStd2(Val(r.std), vals)
       ELSE r.std = NumNaN

\* C10 as stated: every non-count metric of the report is the statistic
\* rounded to two decimals.
C10_AllMetricsRounded ==
    relatorio_csv # Absent =>
        LET r    == Content(relatorio_csv)
            vals == NonNull(PopCells)
        IN  /\ RoundedStats(r, vals)
            /\ r.min = SeqMin(vals)
            /\ r.max = SeqMax(vals)
            /\ r.q1 = Round2(Percentile4(vals, 1), 4)
            /\ r.q3 = Round2(Percentile4(vals, 3), 4)

Truncated(x4) == (x4 \div (4 * Den)) * Den

\* C10 amended: mean, median and standard deviation are rounded to two
\* decimals; minimum, maximum, Q1 and Q3 are truncated to integers; for
\* [1,2,3,4,5,100] the quartile rows carry 2 and 4.
C10_RoundedOrTruncated ==
    relatorio_csv # Absent =>
        LET r    == Content(relatorio_csv)
            vals == NonNull(PopCells)
        IN  /\ RoundedStats(r, vals)
            /\ r.min = Truncated(4 * SeqMin(vals))
            /\ r.max = Truncated(4 * SeqMax(vals))
            /\ r.q1 = Truncated(Percentile4(vals, 1))
            /\ r.q3 = Truncated(Percentile4(vals, 3))
            /\ vals = ExampleVals => r.q1 = 200 /\ r.q3 = 400

C10_Witness ==
    /\ relatorio_csv # Absent
    /\ Percentile4(NonNull(PopCells), 1) % (4 * Den) # 0
    /\ Percentile4(NonNull(PopCells), 3) % (4 * Den) # 0

CommaPositions(s) == {i \in 1..Len(s) : s[i] = ","}

\* Text in the source's number format: digits grouped by ".", then at most
\* one "," followed by one or two decimals.
IsLocaleFormatted(s) ==
    /\ s # NaN
    /\ Len(s) > 0
    /\ \A i \in 1..Len(s) : s[i] \in DigitChars \cup {".", ","}
    /\ s[1] \in DigitChars
    /\ Cardinality(CommaPositions(s)) <= 1
    /\ \A c \in CommaPositions(s) :
          /\ Len(s) - c \in 1..2
          /\ \A i \in (c + 1)..Len(s) : s[i] \in DigitChars

\* The number such a text denotes, in hundredths.
LocaleValue(s) ==
    LET c  == IF CommaPositions(s) = {} THEN Len(s) + 1
              ELSE CHOOSE i \in CommaPositions(s) : TRUE
        ip == SelectSeq(SubSeq(s, 1, c - 1), LAMBDA ch : ch # ".")
        fp == SubSeq(s, c + 1, Len(s))
    IN  DigitsToNat(ip) * 100
        + (IF Len(fp) = 0 THEN 0
           ELSE IF Len(fp) = 1 THEN 10 * DigitsToNat(fp)
           ELSE DigitsToNat(fp))

SingleMatchedRow ==
    /\ Len(raw) = 1
    /\ Len(xls) = 1
    /\ IsLocaleFormatted(xls[1].pop)
    /\ municipios_csv # Absent
    /\ pop_corrigida_csv # Absent
    /\ Rows(municipios_csv)[1].id_ibge = PopCorrigida[1].id_ibge

\* C11: for one registry row whose id is the identifier built from the one
\* population row, the joined population is that row's text, its numeric
\* value is the number the text denotes ("1.234,5" is 1234.5), and the
\* report has count 1, that value as mean and 0 outliers.
C11_EndToEnd ==
    SingleMatchedRow =>
        /\ pop_mun_final_csv # Absent =>
              /\ Len(Joined) = 1
              /\ Joined[1].pop = xls[1].pop
              /\ PopCells[1] = Num(LocaleValue(xls[1].pop))
        /\ DescritivaRan =>
              /\ status["descritiva"] = "done"
              /\ Content(relatorio_csv).count = 1
              /\ Content(relatorio_csv).mean = LocaleValue(xls[1].pop)
              /\ Content(relatorio_csv).outliers = 0

C11_Witness ==
    /\ SingleMatchedRow
    /\ xls[1].pop = <<"1", ".", "2", "3", "4", ",", "5">>
    /\ relatorio_csv # Absent
    /\ Content(relatorio_csv).mean = 123450

\* C12: when the geometry columns hold no candidate or more than one
\* candidate for the identifier, the map script halts and writes no map.
C12_AmbiguousColumnsHalt ==
    Len(Candidates(shp.columns)) # 1 =>
        /\ mapa_png = Absent
        /\ status["mapa"] # "done"

MapaRan == status["mapa"] \notin {"idle", "FileNotFoundError", "IndexError"}

Surviving == MapaGeo(shp, pop_mun_final_csv)

\* C13: when the smallest surviving population is <= 0 the map is still
\* rendered, with a linear scale; a map with the logarithmic scale has
\* vmin > 0, and vmin, vmax are the extremes of the surviving populations.
C13_LinearFallback ==
    /\ (MapaRan /\ Surviving # <<>> /\ SeqMin(GeoPops(Surviving)) <= 0) =>
          /\ status["mapa"] = "done"
          /\ mapa_png # Absent
          /\ Content(mapa_png).norm = "linear"
    /\ (mapa_png # Absent /\ Content(mapa_png).plotted # <<>>) =>
          /\ Content(mapa_png).vmin = Num(SeqMin(GeoPops(Surviving)))
          /\ Content(mapa_png).vmax = Num(SeqMax(GeoPops(Surviving)))
          /\ Content(mapa_png).norm = "log" => Val(Content(mapa_png).vmin) > 0

\* The state of a feature: the first two digits of its identifier.
StateOf(g) == SubSeq(g.id_ibge, 1, 2)

\* C14: the dissolve key is a column other than the municipality
\* identifier, the map has one boundary per state of the plotted features,
\* and the shapefile is not modified.
C14_DissolveByState ==
    mapa_png # Absent =>
        LET m == Content(mapa_png)
        IN  /\ col_mun(shp.columns) # col_ibge(shp.columns)
            /\ Cardinality(m.boundaries)
                   = Cardinality({StateOf(m.plotted[i]) : i \in 1..Len(m.plotted)})


\* C15: a step of a core stage (registry flattening, identifier
\* construction, join, statistics, map) that ends in an error leaves that
\* stage's output file as it was before the step.
C15_NoOutputOnAbort ==
    [][/\ (ProcessAndSave /\ status'["municipios"] # "done") =>
              UNCHANGED municipios_csv
       /\ (ColPop /\ status'["col_pop"] # "done") =>
              UNCHANGED pop_corrigida_csv
       /\ (JoinPopMun /\ status'["join"] # "done") =>
              UNCHANGED pop_mun_final_csv
       /\ (Descritiva /\ status'["descritiva"] # "done") =>
              UNCHANGED relatorio_csv
       /\ (MapaRR /\ status'["mapa"] # "done") =>
              UNCHANGED mapa_png]_vars

Missing == [t |-> "missing"]

\* The value found by following keys from d through dicts that hold
\* each key, Missing when some hop is not a dict or lacks its key.
RECURSIVE Reached(_, _)
Reached(d, keys) ==
    IF keys = <<>> THEN d
    ELSE LET p == Reached(d, SubSeq(keys, 1, Len(keys) - 1))
             k == keys[Len(keys)]
         IN  IF p.t = "dict" /\ k \in DOMAIN p.d THEN p.d[k] ELSE Missing

Resolved(d, keys) == Reached(d, keys).t \notin {"missing", "null"}

Prefixes(p) == {SubSeq(p, 1, k) : k \in 0..Len(p)}

KeyPaths ==
    Prefixes(PathSigla) \cup Prefixes(PathNome) \cup Prefixes(PathRegiao)
        \cup {<<"microrregiao", "UF">>, <<"regiao">>, PathSigla \o <<"nome">>}

Defaults == {JNull, JStr(<<"?">>)}

ExpectedCell(item, path) ==
    IF Resolved(JDict(item), path) THEN Reached(JDict(item), path).s ELSE NaN

LevelMissing(item) ==
    ~(/\ Resolved(JDict(item), <<"microrregiao", "mesorregiao", "UF">>)
      /\ Reached(JDict(item), <<"microrregiao", "mesorregiao", "UF">>).t = "dict")

\* C16: for every item, key path and default, safe_get gives the value
\* reached by the path when every hop is a dict holding its key and the
\* final value is not null, and the default otherwise; the registry stage
\* does not fail on a nonempty response and writes one row per item, in
\* order, whose uf_sigla, uf_nome and regiao are the reached texts, all
\* three null when a level above them is missing.
C16_SafeGetTotal ==
    /\ \A i \in 1..Len(raw) : \A path \in KeyPaths : \A default \in Defaults :
          safe_get(JDict(raw[i]), path, default) =
              IF Resolved(JDict(raw[i]), path)
              THEN Reached(JDict(raw[i]), path)
              ELSE default
    /\ (raw # <<>> /\ status["municipios"] # "idle") =>
          status["municipios"] = "done"
    /\ municipios_csv # Absent =>
          /\ Len(Rows(municipios_csv)) = Len(raw)
          /\ \A i \in 1..Len(raw) :
                LET r == Rows(municipios_csv)[i]
                IN  /\ r.nome = raw[i].nome
                    /\ r.uf_sigla = ExpectedCell(raw[i], PathSigla)
                    /\ r.uf_nome = ExpectedCell(raw[i], PathNome)
                    /\ r.regiao = ExpectedCell(raw[i], PathRegiao)
                    /\ LevelMissing(raw[i]) =>
                          r.uf_sigla = NaN /\ r.uf_nome = NaN /\ r.regiao = NaN

C16_Witness ==
    /\ municipios_csv # Absent
    /\ Len(raw) = 2
    /\ LevelMissing(raw[1])
    /\ Rows(municipios_csv)[1].uf_sigla = NaN
    /\ ~LevelMissing(raw[2])
    /\ Rows(municipios_csv)[2].uf_sigla = SP
    /\ Rows(municipios_csv)[2].regiao = Sudeste

====
